---- MODULE Spec2Model ----
(***************************************************************************)
(* Model of the numerical toolkit in src/msdt-1/код.py: the Polynomial     *)
(* class, NumericalIntegration, DifferentialEquationSolver, Optimizer,     *)
(* the MatrixOperations container with its free functions, and Statistics. *)
(* The toolkit is stateless: every operation is a call made by a driver.   *)
(* The state records the call in progress or just completed (op, args),    *)
(* the working buffers of the two iterative calls (work) and the outcome   *)
(* of the call (res): a returned value or a raised exception.  pc is the   *)
(* driver's position: "idle" before a call, "ode" / "min" inside the two   *)
(* iterative calls, "returned" once the call has produced its outcome.     *)
(*                                                                         *)
(* Numbers are exact integers (numpy int64 arrays built from integer       *)
(* literals, as in main()); quotients are kept as numerator/denominator    *)
(* records and NaN is the string "nan" inside a tagged record.             *)
(***************************************************************************)
EXTENDS Integers, Sequences, FiniteSets, TLC

VARIABLES pc, op, args, work, res

vars == <<pc, op, args, work, res>>

----------------------------------------------------------------------------
(* Bounds of the model *)

\* longest coefficient sequence
MaxLen == 3

\* coefficient values and evaluation points
Coef == -1 .. 1
Points == -1 .. 2

\* integration limits
MaxLimit == 2
Limits == -1 .. MaxLimit

\* longest statistics sample, and the sample values
MaxSample == 4
MaxValue == 2
SampleValues == 0 .. MaxValue

\* matrix entries
MaxEntry == 2
Entries == -1 .. MaxEntry

\* latest time of the integration grid, longest t_eval, largest step
MaxT == 3
MaxEval == 2
MaxStep == 2

\* largest dimension of the minimizer's initial guess
MaxDim == 2

----------------------------------------------------------------------------
(* Generic helpers *)

SeqsUpTo(S, n) == UNION {[1 .. k -> S] : k \in 0 .. n}

Abs(n) == IF n < 0 THEN -n ELSE n

Zeros(n) == [i \in 1 .. n |-> 0]

RECURSIVE Sum(_)
Sum(s) == IF s = <<>> THEN 0 ELSE Head(s) + Sum(Tail(s))

RECURSIVE Power(_, _)
Power(x, k) == IF k = 0 THEN 1 ELSE x * Power(x, k - 1)

RECURSIVE Factorial(_)
Factorial(n) == IF n <= 1 THEN 1 ELSE n * Factorial(n - 1)

SetMin(S) == CHOOSE m \in S : \A x \in S : m <= x
SetMax(S) == CHOOSE m \in S : \A x \in S : m >= x

\* outcome of a call: a returned value (numpy may attach a warning to it)
\* or a raised exception
Return(v) == [kind |-> "value", value |-> v]
ReturnWarning(v, w) == [kind |-> "value", value |-> v, warning |-> w]
Raise(e) == [kind |-> "raise", error |-> e]

\* numbers that are not integers: a quotient, the floating-point NaN
Quotient(n, d) == [nan |-> FALSE, num |-> n, den |-> d]
NaN == [nan |-> TRUE]

----------------------------------------------------------------------------
(* Polynomial: coefficient sequences, highest degree first *)

\* well-formed coefficient sequences: length >= 1
Polys == SeqsUpTo(Coef, MaxLen) \ {<<>>}

\* np.polyadd: the shorter array is padded with zeros in FRONT
polyadd_padback(a1, a2) ==
    LET n == IF Len(a1) > Len(a2) THEN Len(a1) ELSE Len(a2)
        A == a1 \o Zeros(n - Len(a1))
        B == a2 \o Zeros(n - Len(a2))
    IN  [i \in 1 .. n |-> A[i] + B[i]]

polyadd(a1, a2) ==
    LET diff == Len(a2) - Len(a1)
    IN  IF diff = 0
        THEN [i \in 1 .. Len(a1) |-> a1[i] + a2[i]]
        ELSE IF diff > 0
        THEN LET A == Zeros(diff) \o a1
             IN  [i \in 1 .. Len(a2) |-> A[i] + a2[i]]
        ELSE LET B == Zeros(-diff) \o a2
             IN  [i \in 1 .. Len(a1) |-> a1[i] + B[i]]

polysub(a1, a2) ==
    LET diff == Len(a2) - Len(a1)
    IN  IF diff = 0
        THEN [i \in 1 .. Len(a1) |-> a1[i] - a2[i]]
        ELSE IF diff > 0
        THEN LET A == Zeros(diff) \o a1
             IN  [i \in 1 .. Len(a2) |-> A[i] - a2[i]]
        ELSE LET B == Zeros(-diff) \o a2
             IN  [i \in 1 .. Len(a1) |-> a1[i] - B[i]]

\* np.polymul: full convolution, length len(a1) + len(a2) - 1
polymul(a1, a2) ==
    [k \in 1 .. Len(a1) + Len(a2) - 1 |->
        Sum([i \in 1 .. Len(a1) |->
                IF k + 1 - i \in 1 .. Len(a2) THEN a1[i] * a2[k + 1 - i] ELSE 0])]

\* np.polyval: Horner scheme, y = y * x + pv for pv in p
RECURSIVE Horner(_, _, _, _)
Horner(p, x, i, y) == IF i > Len(p) THEN y ELSE Horner(p, x, i + 1, y * x + p[i])

polyval(p, x) == Horner(p, x, 1, 0)

\* np.polyder (m = 1): p[:-1] * arange(n, 0, -1) with n = len(p) - 1
polyder(p) ==
    LET n == Len(p) - 1
    IN  [i \in 1 .. n |-> p[i] * (n + 1 - i)]

\* the methods defined in the body of class Polynomial
PolynomialMethods ==
    {"__init__", "__add__", "__subtract__", "__multiply__", "evaluate_at",
     "compute_derivative", "compute_integral", "find_roots"}

\* the special method Python looks up for a binary operator expression
BinarySlot(sym) ==
    CASE sym = "+" -> "__add__"
      [] sym = "-" -> "__sub__"
      [] sym = "*" -> "__mul__"

\* a method of Polynomial called by name
InvokeMethod(name, a, b) ==
    CASE name = "__add__" -> Return(polyadd(a, b))
      [] name = "__subtract__" -> Return(polysub(a, b))
      [] name = "__multiply__" -> Return(polymul(a, b))

\* the operator expression a <sym> b on two Polynomial values: the slot is
\* looked up on the class; when it is missing (and so is the reflected slot
\* of the same class) Python raises TypeError
BinaryOp(sym, a, b) ==
    IF BinarySlot(sym) \in PolynomialMethods
    THEN InvokeMethod(BinarySlot(sym), a, b)
    ELSE Raise("TypeError")

\* np.roots: leading and trailing zero coefficients are stripped, the roots
\* are the eigenvalues of the companion matrix of what is left (kept here
\* as that coefficient sequence: N - 1 eigenvalues for N coefficients), and
\* one zero root is appended per stripped trailing zero
roots_rejecting(p) ==
    IF p[1] = 0
    THEN Raise("DegenerateInputError")
    ELSE Return([count |-> Len(p) - 1, companion |-> p, zero_roots |-> 0])

roots(p) ==
    LET non_zero == {i \in 1 .. Len(p) : p[i] # 0}
    IN  IF non_zero = {}
        THEN Return([count |-> 0, companion |-> <<>>, zero_roots |-> 0])
        ELSE LET trailing_zeros == Len(p) - SetMax(non_zero)
                 q == SubSeq(p, SetMin(non_zero), SetMax(non_zero))
                 N == Len(q)
             IN  Return([count |-> (IF N > 1 THEN N - 1 ELSE 0) + trailing_zeros,
                         companion |-> q,
                         zero_roots |-> trailing_zeros])

----------------------------------------------------------------------------
(* NumericalIntegration *)

\* the integrand handed to quad: x |-> polyval(c, x)
Integrands == Polys

\* scipy.integrate.quad(func, a, b) on a polynomial integrand: the definite
\* integral from a to b, oriented by the order of the limits as given (the
\* limits are not compared), here exactly, as a quotient over len(c)!
quad_rejecting(c, a, b) ==
    IF a > b
    THEN Raise("InvalidIntervalError")
    ELSE LET n == Len(c)
             D == Factorial(n)
             term == [i \in 1 .. n |->
                         c[i] * (D \div (n + 1 - i)) * (Power(b, n + 1 - i) - Power(a, n + 1 - i))]
         IN  Return(Quotient(Sum(term), D))

quad(c, a, b) ==
    LET n == Len(c)
        D == Factorial(n)
        term == [i \in 1 .. n |->
                    c[i] * (D \div (n + 1 - i)) * (Power(b, n + 1 - i) - Power(a, n + 1 - i))]
    IN  Return(Quotient(Sum(term), D))

----------------------------------------------------------------------------
(* Statistics *)

Samples == SeqsUpTo(SampleValues, MaxSample)

SumSquares(data) == Sum([i \in 1 .. Len(data) |-> data[i] * data[i]])

\* ndarray.sort
RECURSIVE Insert(_, _)
Insert(x, s) ==
    IF s = <<>> THEN <<x>>
    ELSE IF x <= Head(s) THEN <<x>> \o s
    ELSE <<Head(s)>> \o Insert(x, Tail(s))

RECURSIVE Sorted(_)
Sorted(s) == IF s = <<>> THEN <<>> ELSE Insert(Head(s), Sorted(Tail(s)))

\* np.mean: sum / n; NaN with a RuntimeWarning for an empty array
mean(data) ==
    IF Len(data) = 0
    THEN ReturnWarning(NaN, "RuntimeWarning")
    ELSE Return(Quotient(Sum(data), Len(data)))

\* np.var: mean(abs(x - mean(x)) ** 2) = (n * sum(x^2) - sum(x)^2) / n^2
var(data) ==
    IF Len(data) = 0
    THEN ReturnWarning(NaN, "RuntimeWarning")
    ELSE Return(Quotient(Len(data) * SumSquares(data) - Sum(data) * Sum(data),
                         Len(data) * Len(data)))

\* np.std: sqrt(var)
std(data) ==
    IF Len(data) = 0
    THEN ReturnWarning(NaN, "RuntimeWarning")
    ELSE Return([nan |-> FALSE, sqrt_of |-> var(data).value])

\* np.median: the middle of the sorted array, or the mean of the two middle
\* elements; NaN with a RuntimeWarning for an empty array
median(data) ==
    LET n == Len(data)
        s == Sorted(data)
    IN  IF n = 0
        THEN ReturnWarning(NaN, "RuntimeWarning")
        ELSE IF n % 2 = 1
        THEN Return(Quotient(s[(n + 1) \div 2], 1))
        ELSE Return(Quotient(s[n \div 2] + s[n \div 2 + 1], 2))

\* np.unique(data, return_counts=True): sort, keep each element that
\* differs from its predecessor, count by the distance to the next kept one
unique(data) ==
    LET ar == Sorted(data)
        n == Len(ar)
        mask == {i \in 1 .. n : i = 1 \/ ar[i] # ar[i - 1]}
        idx == [k \in 1 .. Cardinality(mask) |->
                   CHOOSE i \in mask : Cardinality({j \in mask : j < i}) = k - 1]
        bound(k) == IF k > Cardinality(mask) THEN n + 1 ELSE idx[k]
    IN  [values |-> [k \in 1 .. Cardinality(mask) |-> ar[idx[k]]],
         counts |-> [k \in 1 .. Cardinality(mask) |-> bound(k + 1) - bound(k)]]

\* np.argmax: the index of the FIRST occurrence of the maximum; ValueError
\* for an empty array
argmax_last(counts) ==
    IF Len(counts) = 0
    THEN Raise("ValueError")
    ELSE Return(SetMax({i \in 1 .. Len(counts) : \A j \in 1 .. Len(counts) : counts[j] <= counts[i]}))

argmax(counts) ==
    IF Len(counts) = 0
    THEN Raise("ValueError")
    ELSE Return(SetMin({i \in 1 .. Len(counts) : \A j \in 1 .. Len(counts) : counts[j] <= counts[i]}))

compute_mode_nan(data) ==
    IF Len(data) = 0
    THEN ReturnWarning(NaN, "RuntimeWarning")
    ELSE Return(unique(data).values[argmax(unique(data).counts).value])

compute_mode(data) ==
    LET u == unique(data)
        max_count_index == argmax(u.counts)
    IN  IF max_count_index.kind = "raise"
        THEN max_count_index
        ELSE Return(u.values[max_count_index.value])

StatisticsOps ==
    {"compute_mean", "compute_variance", "compute_standard_deviation",
     "compute_median", "compute_mode"}

StatisticsCall(name, data) ==
    CASE name = "compute_mean" -> mean(data)
      [] name = "compute_variance" -> var(data)
      [] name = "compute_standard_deviation" -> std(data)
      [] name = "compute_median" -> median(data)
      [] name = "compute_mode" -> compute_mode(data)

----------------------------------------------------------------------------
(* MatrixOperations and the module-level functions that take it as self *)

\* 2 x 2 matrices, as in main()
Matrices == [1 .. 2 -> [1 .. 2 -> Entries]]

\* what attribute lookup finds on a MatrixOperations instance: the class
\* body defines __init__ only, and __init__ sets matrix
MatrixOperationsAttributes == {"__init__", "matrix"}

\* np.linalg.det
det(m) == m[1][1] * m[2][2] - m[1][2] * m[2][1]

\* np.linalg.inv: the adjugate over the determinant
inv(m) ==
    [adjugate |-> <<<<m[2][2], -m[1][2]>>, <<-m[2][1], m[1][1]>>>>, over |-> det(m)]

compute_determinant(m) == Return(det(m))

\* compute_inverse(self): self.determinant() is an attribute lookup on the
\* instance followed by a call
compute_inverse(m) ==
    IF "determinant" \notin MatrixOperationsAttributes
    THEN Raise("AttributeError")
    ELSE IF det(m) = 0
    THEN Raise("ValueError")
    ELSE Return(inv(m))

----------------------------------------------------------------------------
(* DifferentialEquationSolver: scipy.integrate.solve_ivp with the default  *)
(* RK45 solver, on an integer time grid whose unit is the smallest step.   *)
(* The right-hand side decides which trial steps pass the error test, so   *)
(* the accepted step sizes are chosen nondeterministically.                *)

Times == 0 .. MaxT

\* t_eval: not given (None), or a sequence of times
NoEval == [given |-> FALSE, points |-> <<>>]
EvalArgs == {NoEval} \cup {[given |-> TRUE, points |-> e] : e \in SeqsUpTo(Times, MaxEval)}

Reverse(s) == [i \in 1 .. Len(s) |-> s[Len(s) + 1 - i]]

Sign(n) == IF n > 0 THEN 1 ELSE IF n < 0 THEN -1 ELSE 0

\* OdeSolver.__init__: direction = sign(t_bound - t0) if t_bound != t0 else 1
Direction(t0, tf) == IF tf # t0 THEN Sign(tf - t0) ELSE 1

\* the checks solve_ivp makes on t_eval before integrating
EvalOutOfSpan(t0, tf, e) ==
    \E i \in 1 .. Len(e) :
        \/ e[i] < (IF t0 < tf THEN t0 ELSE tf)
        \/ e[i] > (IF t0 < tf THEN tf ELSE t0)

EvalNotSorted(t0, tf, e) ==
    \/ tf > t0 /\ \E i \in 1 .. Len(e) - 1 : e[i + 1] - e[i] <= 0
    \/ tf < t0 /\ \E i \in 1 .. Len(e) - 1 : e[i + 1] - e[i] >= 0

\* np.searchsorted on an ascending array: side='right' counts the elements
\* <= t, side='left' the elements < t
searchsorted_right(a, t) == Cardinality({i \in 1 .. Len(a) : a[i] <= t})
searchsorted_left(a, t) == Cardinality({i \in 1 .. Len(a) : a[i] < t})

\* a[lo:hi] with 0-based, end-exclusive indices
Slice(a, lo, hi) == SubSeq(a, lo + 1, hi)

\* the list of time points solve_ivp starts with
InitialTs(t0, t_eval) == IF ~t_eval.given THEN <<t0>> ELSE <<>>

\* the t_eval values recorded after a step that ended at t: "the value in
\* t_eval equal to t will be included"
EvalStep_exclusive(w, t) ==
    IF w.direction > 0
    THEN LET new == searchsorted_left(w.t_eval, t)
         IN  [i |-> new, step |-> Slice(w.t_eval, w.t_eval_i, new)]
    ELSE LET new == searchsorted_right(w.t_eval, t)
         IN  [i |-> new, step |-> Reverse(Slice(w.t_eval, new, w.t_eval_i))]

EvalStep(w, t) ==
    IF w.direction > 0
    THEN LET new == searchsorted_right(w.t_eval, t)
         IN  [i |-> new, step |-> Slice(w.t_eval, w.t_eval_i, new)]
    ELSE LET new == searchsorted_left(w.t_eval, t)
         IN  [i |-> new, step |-> Reverse(Slice(w.t_eval, new, w.t_eval_i))]

\* what the loop body of solve_ivp does with the solver after a step that
\* did not fail: append t, or the t_eval values the step passed
Record(w, given, t) ==
    IF ~given
    THEN [w EXCEPT !.ts = Append(w.ts, t)]
    ELSE LET e == EvalStep(w, t)
         IN  IF Len(e.step) > 0
             THEN [w EXCEPT !.ts = w.ts \o e.step, !.t_eval_i = e.i]
             ELSE w

\* OdeResult(t=ts, status=status, success=status >= 0)
OdeResult(w, status) ==
    Return([t |-> w.ts, status |-> status, success |-> status >= 0])

----------------------------------------------------------------------------
(* Optimizer: scipy.optimize.minimize(func, initial_guess).  No method,    *)
(* bounds or constraints are passed, so the BFGS solver runs, with its     *)
(* default iteration limit of 200 per dimension.  The objective decides    *)
(* the gradient norm after each iteration and whether the line search      *)
(* succeeds: both are chosen nondeterministically.                         *)

\* default maxiter of BFGS: len(x0) * 200
IterationsPerDimension == 200

maxiter(n) == n * IterationsPerDimension

\* gradient norm against gtol: "small" (gnorm <= gtol) or "large"
GradientNorms == {"small", "large"}

\* the loop condition: while (gnorm > gtol) and (k < maxiter)
Iterating(w, n) == w.running /\ w.gnorm = "large" /\ w.k < maxiter(n)

\* the status set after the loop: 2 precision loss, 1 iteration limit,
\* 0 success
FinalWarnflag_nolimit(w, n) ==
    IF w.warnflag = 2 THEN 2
    ELSE 0

FinalWarnflag(w, n) ==
    IF w.warnflag = 2 THEN 2
    ELSE IF w.k >= maxiter(n) THEN 1
    ELSE 0

\* OptimizeResult(status=warnflag, success=(warnflag == 0), nit=k)
OptimizeResult(w, n) ==
    Return([status |-> FinalWarnflag(w, n),
            success |-> FinalWarnflag(w, n) = 0,
            nit |-> w.k])

----------------------------------------------------------------------------
(* Actions: one per call the driver can make *)

Init ==
    /\ pc = "idle"
    /\ op = "none"
    /\ args = <<>>
    /\ work = <<>>
    /\ res = Return(0)

\* poly1 + poly2, poly1 - poly2, poly1 * poly2
OperatorExpr ==
    /\ pc = "idle"
    /\ \E sym \in {"+", "-", "*"}, a \in Polys, b \in Polys :
        /\ op' = sym
        /\ args' = [a |-> a, b |-> b]
        /\ res' = BinaryOp(sym, a, b)
    /\ pc' = "returned"
    /\ UNCHANGED work

\* a.__subtract__(b), a.__multiply__(b) called by name
NamedMethodCall ==
    /\ pc = "idle"
    /\ \E name \in {"__add__", "__subtract__", "__multiply__"}, a \in Polys, b \in Polys :
        /\ op' = name
        /\ args' = [a |-> a, b |-> b]
        /\ res' = InvokeMethod(name, a, b)
    /\ pc' = "returned"
    /\ UNCHANGED work

\* (a + b).evaluate_at(x)
EvaluateSum ==
    /\ pc = "idle"
    /\ \E a \in Polys, b \in Polys, x \in Points :
        /\ op' = "evaluate_sum"
        /\ args' = [a |-> a, b |-> b, x |-> x]
        /\ res' = LET s == BinaryOp("+", a, b)
                  IN  IF s.kind = "raise" THEN s ELSE Return(polyval(s.value, x))
    /\ pc' = "returned"
    /\ UNCHANGED work

\* p.compute_derivative()
ComputeDerivative ==
    /\ pc = "idle"
    /\ \E p \in Polys :
        /\ op' = "compute_derivative"
        /\ args' = [p |-> p]
        /\ res' = Return(polyder(p))
    /\ pc' = "returned"
    /\ UNCHANGED work

\* p.find_roots()
FindRoots ==
    /\ pc = "idle"
    /\ \E p \in Polys :
        /\ op' = "find_roots"
        /\ args' = [p |-> p]
        /\ res' = roots(p)
    /\ pc' = "returned"
    /\ UNCHANGED work

\* NumericalIntegration.integrate_funtion(func, a, b)
IntegrateFunction ==
    /\ pc = "idle"
    /\ \E c \in Integrands, a \in Limits, b \in Limits :
        /\ op' = "integrate_funtion"
        /\ args' = [func |-> c, a |-> a, b |-> b]
        /\ res' = quad(c, a, b)
    /\ pc' = "returned"
    /\ UNCHANGED work

\* Statistics.compute_mean(data), ..., Statistics.compute_mode(data)
StatisticsOp ==
    /\ pc = "idle"
    /\ \E name \in StatisticsOps, data \in Samples :
        /\ op' = name
        /\ args' = [data |-> data]
        /\ res' = StatisticsCall(name, data)
    /\ pc' = "returned"
    /\ UNCHANGED work

\* compute_determinant(matrix_operations)
ComputeDeterminant ==
    /\ pc = "idle"
    /\ \E m \in Matrices :
        /\ op' = "compute_determinant"
        /\ args' = [matrix |-> m]
        /\ work' = [matrix |-> m]
        /\ res' = compute_determinant(m)
    /\ pc' = "returned"

\* compute_inverse(matrix_operations); work holds self.matrix after the call
ComputeInverse ==
    /\ pc = "idle"
    /\ \E m \in Matrices :
        /\ op' = "compute_inverse"
        /\ args' = [matrix |-> m]
        /\ work' = [matrix |-> m]
        /\ res' = compute_inverse(m)
    /\ pc' = "returned"

\* DifferentialEquationSolver.solve_ode(ode_func, y0, t_span, t_eval): the
\* argument checks and the set-up before the integration loop
SolveOde ==
    /\ pc = "idle"
    /\ \E t0 \in Times, tf \in Times, t_eval \in EvalArgs, h_abs \in 1 .. MaxStep :
        /\ op' = "solve_ode"
        /\ args' = [t0 |-> t0, tf |-> tf, t_eval |-> t_eval]
        /\ IF t_eval.given /\ (EvalOutOfSpan(t0, tf, t_eval.points)
                                \/ EvalNotSorted(t0, tf, t_eval.points))
           THEN /\ pc' = "returned"
                /\ res' = Raise("ValueError")
                /\ work' = <<>>
           ELSE /\ pc' = "ode"
                /\ res' = res
                /\ work' = [t |-> t0,
                            t_bound |-> tf,
                            direction |-> Direction(t0, tf),
                            h_abs |-> h_abs,
                            t_eval |-> IF tf > t0 THEN t_eval.points
                                       ELSE Reverse(t_eval.points),
                            t_eval_i |-> IF tf > t0 THEN 0 ELSE Len(t_eval.points),
                            ts |-> InitialTs(t0, t_eval)]

\* one pass of the loop "while status is None": solver.step() and the
\* recording of its time point.  The pass that leaves the loop builds the
\* result and returns it.
\* solver.step() when t == t_bound: no integration, the solver finishes
OdeStepNoIntegration ==
    /\ pc = "ode"
    /\ work.t = work.t_bound
    /\ work' = Record(work, args.t_eval.given, work.t_bound)
    /\ res' = OdeResult(work', 0)
    /\ pc' = "returned"
    /\ UNCHANGED <<op, args>>

\* _step_impl fails: the trial steps were rejected until the step fell
\* below min_step; nothing is recorded (status = -1, break)
OdeStepFailed ==
    /\ pc = "ode"
    /\ work.t # work.t_bound
    /\ res' = OdeResult(work, -1)
    /\ pc' = "returned"
    /\ UNCHANGED <<op, args, work>>

\* _step_impl accepts a step: of size h_abs at once, or of a smaller size
\* after rejections; the step is cut at t_bound
OdeStepAccepted ==
    /\ pc = "ode"
    /\ work.t # work.t_bound
    /\ \E h \in 1 .. work.h_abs :
        LET step_rejected == h < work.h_abs
            ahead == work.t + h * work.direction
            t_new == IF work.direction * (ahead - work.t_bound) > 0
                     THEN work.t_bound ELSE ahead
            h_used == Abs(t_new - work.t)
            finished == work.direction * (t_new - work.t_bound) >= 0
        IN  \E h_next \in 1 .. MaxStep :
                /\ IF step_rejected THEN h_next <= h_used ELSE h_next >= h_used
                /\ work' = Record([work EXCEPT !.t = t_new, !.h_abs = h_next],
                                  args.t_eval.given, t_new)
                /\ IF finished
                   THEN res' = OdeResult(work', 0) /\ pc' = "returned"
                   ELSE res' = res /\ pc' = "ode"
    /\ UNCHANGED <<op, args>>

\* Optimizer.minimize_function(func, initial_guess): the set-up of BFGS
\* for an initial guess of n coordinates
MinimizeFunction ==
    /\ pc = "idle"
    /\ \E n \in 1 .. MaxDim, gnorm \in GradientNorms :
        /\ op' = "minimize_function"
        /\ args' = [n |-> n]
        /\ work' = [k |-> 0, gnorm |-> gnorm, warnflag |-> 0, running |-> TRUE]
    /\ pc' = "min"
    /\ UNCHANGED res

\* the line search of an iteration fails: warnflag = 2, break
MinimizeLineSearchFails ==
    /\ pc = "min"
    /\ Iterating(work, args.n)
    /\ work' = [work EXCEPT !.warnflag = 2, !.running = FALSE]
    /\ UNCHANGED <<pc, op, args, res>>

\* an iteration completes: k += 1, the gradient norm is taken again; the
\* loop breaks when it is within gtol, and with warnflag = 2 when the
\* objective value is not finite
MinimizeIteration ==
    /\ pc = "min"
    /\ Iterating(work, args.n)
    /\ \E gnorm \in GradientNorms, finite \in BOOLEAN :
        work' = [work EXCEPT !.k = work.k + 1,
                             !.gnorm = gnorm,
                             !.warnflag = IF gnorm # "small" /\ ~finite THEN 2 ELSE 0,
                             !.running = gnorm # "small" /\ finite]
    /\ UNCHANGED <<pc, op, args, res>>

\* after the loop: the status is settled and the result returned
MinimizeReturn ==
    /\ pc = "min"
    /\ ~Iterating(work, args.n)
    /\ res' = OptimizeResult(work, args.n)
    /\ pc' = "returned"
    /\ UNCHANGED <<op, args, work>>

\* the driver drops the outcome and goes on to its next statement; no
\* component keeps state between calls
NextStatement ==
    /\ pc = "returned"
    /\ pc' = "idle"
    /\ op' = "none"
    /\ args' = <<>>
    /\ work' = <<>>
    /\ res' = Return(0)

Next ==
    \/ NextStatement
    \/ OperatorExpr
    \/ NamedMethodCall
    \/ EvaluateSum
    \/ ComputeDerivative
    \/ FindRoots
    \/ IntegrateFunction
    \/ StatisticsOp
    \/ ComputeDeterminant
    \/ ComputeInverse
    \/ SolveOde
    \/ OdeStepNoIntegration
    \/ OdeStepFailed
    \/ OdeStepAccepted
    \/ MinimizeFunction
    \/ MinimizeLineSearchFails
    \/ MinimizeIteration
    \/ MinimizeReturn

Spec == Init /\ [][Next]_vars

\* The Optimizer alone.  minimize is one synchronous call: once entered,
\* its loop keeps running and its return is taken, which is what the weak
\* fairness of its steps states.
OptimizerNext ==
    \/ NextStatement
    \/ MinimizeFunction
    \/ MinimizeLineSearchFails
    \/ MinimizeIteration
    \/ MinimizeReturn

OptimizerStep == MinimizeLineSearchFails \/ MinimizeIteration \/ MinimizeReturn

OptimizerSpec == Init /\ [][OptimizerNext]_vars /\ WF_vars(OptimizerStep)

----------------------------------------------------------------------------
(* Properties *)

Returned(name) == pc = "returned" /\ op = name

\* C1: each of the operator expressions a + b, a - b and a * b on two
\* well-formed Polynomial values completes without raising and yields a
\* Polynomial (a coefficient sequence of length >= 1).
C1_OperatorsNeverRaise ==
    (pc = "returned" /\ op \in {"+", "-", "*"}) =>
        (res.kind = "value" /\ Len(res.value) >= 1)

\* C2: evaluating the sum p + q at x gives evaluate_at(p, x) +
\* evaluate_at(q, x), for coefficient sequences of equal or different
\* lengths (the sequences are aligned at the low-degree end).
C2_SumHomomorphism ==
    Returned("evaluate_sum") =>
        /\ res.kind = "value"
        /\ res.value = polyval(args.a, args.x) + polyval(args.b, args.x)

C2_Witness ==
    /\ Returned("evaluate_sum")
    /\ Len(args.a) = 3 /\ Len(args.b) = 2
    /\ args.a[1] # 0 /\ args.b[1] # 0 /\ args.x = 2
    /\ res.kind = "value" /\ res.value # 0

\* C3: compute_derivative of a degree-0 polynomial (one coefficient)
\* returns the single coefficient 0, a sequence of length >= 1.
C3_ConstantDerivativeIsZero ==
    (Returned("compute_derivative") /\ Len(args.p) = 1) =>
        (res.kind = "value" /\ res.value = <<0>>)

\* C4 as stated: find_roots ends in an error exactly when the leading
\* coefficient is zero, and returns roots only when it is non-zero.
C4_LeadingZeroRaises ==
    Returned("find_roots") => (res.kind = "raise" <=> args.p[1] = 0)

\* C4 amended: find_roots never ends in an error; leading zero
\* coefficients are dropped and it returns as many roots as the degree of
\* what remains (none for the all-zero sequence).
C4_LeadingZerosStripped ==
    Returned("find_roots") =>
        LET nz == {i \in 1 .. Len(args.p) : args.p[i] # 0}
        IN  /\ res.kind = "value"
            /\ res.value.count = (IF nz = {} THEN 0 ELSE Len(args.p) - SetMin(nz))
            /\ (nz # {} => res.value.companion[1] # 0)

C4_Witness ==
    /\ Returned("find_roots")
    /\ Len(args.p) = 3 /\ args.p[1] = 0 /\ args.p[2] # 0
    /\ res.kind = "value" /\ res.value.count = 1

\* C5 as stated: the quadrature called with a > b fails with an error and
\* returns no value.
C5_ReversedIntervalRaises ==
    (Returned("integrate_funtion") /\ args.a > args.b) => res.kind = "raise"

\* C5 amended: the quadrature called with a > b raises nothing and returns
\* a number, the negated integral over [b, a].
C5_ReversedIntervalNegates ==
    (Returned("integrate_funtion") /\ args.a > args.b) =>
        /\ res.kind = "value"
        /\ res.value.num = -(quad(args.func, args.b, args.a).value.num)
        /\ res.value.den = quad(args.func, args.b, args.a).value.den

C5_Witness ==
    /\ Returned("integrate_funtion")
    /\ args.a > args.b
    /\ res.kind = "value" /\ res.value.num # 0

\* C6 as stated: each of the five statistics operations ends in an error
\* on an empty sample.
C6_EmptySampleRaises ==
    (pc = "returned" /\ op \in StatisticsOps /\ Len(args.data) = 0) =>
        res.kind = "raise"

\* C6 amended: on an empty sample only compute_mode ends in an error (a
\* ValueError); compute_mean, compute_variance, compute_standard_deviation
\* and compute_median return NaN with a runtime warning.
C6_EmptySampleOutcomes ==
    (pc = "returned" /\ op \in StatisticsOps /\ Len(args.data) = 0) =>
        IF op = "compute_mode"
        THEN res.kind = "raise" /\ res.error = "ValueError"
        ELSE res.kind = "value" /\ res.value.nan /\ res.warning = "RuntimeWarning"

C6_Witness ==
    /\ Returned("compute_median")
    /\ Len(args.data) = 0
    /\ res.kind = "value" /\ res.value.nan

\* C7: for a non-empty sample compute_mode returns a value whose
\* occurrence count is maximal, the smallest one when several values share
\* that count, whatever the order of the elements.
C7_ModeSmallestMostFrequent ==
    (Returned("compute_mode") /\ Len(args.data) >= 1) =>
        LET data == args.data
            cnt(v) == Cardinality({i \in 1 .. Len(data) : data[i] = v})
        IN  /\ res.kind = "value"
            /\ cnt(res.value) >= 1
            /\ \A i \in 1 .. Len(data) :
                   /\ cnt(data[i]) <= cnt(res.value)
                   /\ cnt(data[i]) = cnt(res.value) => res.value <= data[i]

C7_Witness ==
    /\ Returned("compute_mode")
    /\ args.data = <<2, 1, 2, 1>>
    /\ res.kind = "value" /\ res.value = 1

\* C8 as stated, for the calls with t0 < tf that integrate up to tf, with
\* t_eval omitted or non-empty: the returned time points are strictly
\* increasing, the first one is t0 and the last one is the last accepted
\* time (<= tf).
StrictlyIncreasing(ts) == \A i \in 1 .. Len(ts) - 1 : ts[i] < ts[i + 1]

C8_TimesFromT0ToLastAccepted ==
    (/\ Returned("solve_ode") /\ res.kind = "value" /\ args.t0 < args.tf
     /\ res.value.status = 0
     /\ args.t_eval.given => Len(args.t_eval.points) >= 1) =>
        LET ts == res.value.t
        IN  /\ StrictlyIncreasing(ts)
            /\ Len(ts) >= 1
            /\ ts[1] = args.t0
            /\ ts[Len(ts)] = work.t
            /\ work.t <= args.tf

\* C8 amended: for every solve_ode call with t0 < tf that returns a
\* solution, the returned time points are strictly increasing; without
\* t_eval the first one is t0 and the last one is the last accepted time
\* (<= tf); with t_eval they are exactly the t_eval values up to the last
\* accepted time (none when no step was accepted), so t0 and the last
\* accepted time are returned only where t_eval lists them.
C8_TimesForwardCall ==
    (Returned("solve_ode") /\ res.kind = "value" /\ args.t0 < args.tf) =>
        LET ts == res.value.t
            e == args.t_eval.points
        IN  /\ StrictlyIncreasing(ts)
            /\ work.t <= args.tf
            /\ ~args.t_eval.given =>
                   (Len(ts) >= 1 /\ ts[1] = args.t0 /\ ts[Len(ts)] = work.t)
            /\ args.t_eval.given =>
                   ts = SubSeq(e, 1, IF work.t = args.t0 THEN 0
                                     ELSE Cardinality({i \in 1 .. Len(e) : e[i] <= work.t}))

C8_Witness ==
    /\ Returned("solve_ode")
    /\ args.t0 = 0 /\ args.tf = 3
    /\ args.t_eval.given /\ args.t_eval.points = <<1, 3>>
    /\ res.kind = "value" /\ res.value.t = <<1, 3>> /\ res.value.status = 0

C10_InverseOrValueError ==
    Returned("compute_inverse") =>
        /\ (res.kind = "raise" /\ res.error = "ValueError") <=> det(args.matrix) = 0
        /\ det(args.matrix) # 0 => (res.kind = "value" /\ res.value = inv(args.matrix))
        /\ work.matrix = args.matrix

====
